---- MODULE Spec2Model ----
(***************************************************************************)
(* Verifiable secret sharing (Pedersen 91 / Stadler 96) of src/src/vss.rs. *)
(*                                                                         *)
(* Scalars are the integers modulo FieldOrder.  Group elements are pairs   *)
(* <<a, b>> standing for a*G + b*H, the two generators being independent   *)
(* (nobody knows log_G H).  Hashes are injective: a hash is the tuple of   *)
(* what was hashed.  A signature names its signer, message and associated  *)
(* data; it verifies exactly under that key, message and data.             *)
(***************************************************************************)
EXTENDS Integers, Sequences, FiniteSets, TLC

VARIABLES role, dealer, verifier, recovery, cohort

vars == <<role, dealer, verifier, recovery, cohort>>

\* Number of verifiers n (verifiers.len()).
N == 3

\* Order of the scalar field FE.
FieldOrder == 5

Indices == 0 .. (N - 1)

Scalars == 0 .. (FieldOrder - 1)

\* verifiers[i]: the public key of verifier i.
VerifierKey(i) == i

\* The dealer's long-term public key.
DealerKey == N

\* A key that belongs to nobody in the cohort.
OutsiderKey == N + 1

------------------------------------------------------------------------------
(* Scalars, points, polynomials                                            *)

Generator == <<1, 0>>

derive_h == <<0, 1>>

scalar_mul(p, k) == <<(p[1] * k) % FieldOrder, (p[2] * k) % FieldOrder>>

add_point(p, q) == <<(p[1] + q[1]) % FieldOrder, (p[2] + q[2]) % FieldOrder>>

\* x^e in the field.
RECURSIVE Pow(_, _)
Pow(x, e) == IF e = 0 THEN 1 ELSE (x * Pow(x, e - 1)) % FieldOrder

\* The multiplicative inverse of a non-zero scalar.
Inv(x) == CHOOSE y \in Scalars : (x * y) % FieldOrder = 1

\* The abscissa at which share i is evaluated.
XCoord(i) == i % FieldOrder

\* PriPoly::eval: coeffs[1] is the constant term.
RECURSIVE PriSum(_, _, _)
PriSum(coeffs, x, j) ==
    IF j > Len(coeffs) THEN 0
    ELSE (coeffs[j] * Pow(x, j - 1) + PriSum(coeffs, x, j + 1)) % FieldOrder

PriPoly_eval(coeffs, i) == [i |-> i, v |-> PriSum(coeffs, XCoord(i), 1)]

\* PriPoly::commit(base): the public polynomial coeffs[j] * base.
PriPoly_commit(coeffs, base) == [j \in 1 .. Len(coeffs) |-> scalar_mul(base, coeffs[j])]

\* PubPoly::add, coefficient-wise.
PubPoly_add(p, q) == [j \in 1 .. Len(p) |-> add_point(p[j], q[j])]

\* PubPoly::eval.
RECURSIVE PubSum(_, _, _)
PubSum(commits, x, j) ==
    IF j > Len(commits) THEN <<0, 0>>
    ELSE add_point(scalar_mul(commits[j], Pow(x, j - 1)), PubSum(commits, x, j + 1))

PubPoly_eval(commits, i) == [i |-> i, v |-> PubSum(commits, XCoord(i), 1)]

------------------------------------------------------------------------------
(* Hashes and signatures                                                   *)

\* An empty byte vector used as a session id.
EmptySid == <<>>

\* The byte length of a session id.
SidLen(sid) == IF sid = EmptySid THEN 0 ELSE 32

session_id(dealerKey, commitments, t) == <<"sid", dealerKey, commitments, t>>

Response_hash(sid, index, approved) ==
    <<"response", sid, index, IF approved THEN 1 ELSE 0>>

Justification_hash(sid, index, deal) == <<"justification", sid, index, deal>>

sign_msg(key, msg, aad) == [signer |-> key, msg |-> msg, aad |-> aad]

\* An empty signature (Vec::new()).
EmptySig == [signer |-> -1, msg |-> <<>>, aad |-> -1]

verify_signature(key, sig, msg, aad) ==
    /\ sig.signer = key
    /\ sig.msg = msg
    /\ sig.aad = aad

\* valid_t without the upper bound.
valid_t_unbounded(t) == t >= 2

valid_t(t) == t >= 2 /\ t <= N

------------------------------------------------------------------------------
(* Deal, Response, Justification                                           *)

\* Deal::default().
DefaultDeal ==
    [session_id |-> EmptySid,
     sec_share |-> [i |-> 0, v |-> 0],
     rnd_share |-> [i |-> 0, v |-> 0],
     t |-> 0,
     commitments |-> <<>>]

\* Deal::verify without the comparison of the shares with the commitments.
Deal_verify_unchecked(d, sid) ==
    IF ~valid_t(d.t) THEN "vss: invalid t received in Deal"
    ELSE IF sid # d.session_id THEN "vss: find different sessionIDs from Deal"
    ELSE IF d.sec_share.i # d.rnd_share.i
    THEN "vss: not the same index for f and g share in Deal"
    ELSE IF d.sec_share.i >= N THEN "vss: index out of bounds in Deal"
    ELSE "ok"

\* Deal::verify.
Deal_verify(d, sid) ==
    IF ~valid_t(d.t) THEN "vss: invalid t received in Deal"
    ELSE IF sid # d.session_id THEN "vss: find different sessionIDs from Deal"
    ELSE IF d.sec_share.i # d.rnd_share.i
    THEN "vss: not the same index for f and g share in Deal"
    ELSE IF d.sec_share.i >= N THEN "vss: index out of bounds in Deal"
    ELSE LET fig == scalar_mul(Generator, d.sec_share.v)
             gih == scalar_mul(derive_h, d.rnd_share.v)
             ci == add_point(fig, gih)
             pub_share == PubPoly_eval(d.commitments, d.sec_share.i)
         IN  IF ci # pub_share.v
             THEN "vss: share does not verify against commitments in Deal"
             ELSE "ok"

------------------------------------------------------------------------------
(* Aggregator                                                              *)

\* HashMap::new().
NoResponses == [i \in {} |-> 0]

\* HashMap::insert.
Insert(responses, r) ==
    [i \in (DOMAIN responses) \cup {r.index} |-> IF i = r.index THEN r ELSE responses[i]]

Aggregator_new(threshold, sid) ==
    [responses |-> NoResponses,
     session_id |-> sid,
     deal |-> DefaultDeal,
     threshold |-> threshold,
     bad_dealer |-> FALSE]

\* What a method that may fail hands back: the object after the call and the
\* result, "ok" or the error message.
Outcome(obj, res) == [obj |-> obj, res |-> res]

\* add_response without the contains_key test: a later Response overwrites.
add_response_overwrite(a, r) ==
    IF N <= r.index THEN Outcome(a, "vss: index out of bounds in Respose")
    ELSE Outcome([a EXCEPT !.responses = Insert(a.responses, r)], "ok")

add_response(a, r) ==
    IF N <= r.index THEN Outcome(a, "vss: index out of bounds in Respose")
    ELSE IF r.index \in DOMAIN a.responses
    THEN Outcome(a, "vss: already existing response from same origin")
    ELSE Outcome([a EXCEPT !.responses = Insert(a.responses, r)], "ok")

\* verify_response without the signature verification.
verify_response_unsigned(a, r) ==
    IF SidLen(r.session_id) # 32 \/ SidLen(a.session_id) # 32
    THEN Outcome(a, "could not convert slice to array")
    ELSE IF r.session_id # a.session_id
    THEN Outcome(a, "vss: receiving inconsistent sessionID in response")
    ELSE IF r.index \notin Indices
    THEN Outcome(a, "vss: index out of bounds in response")
    ELSE add_response(a, r)

\* verify_response without the session id comparison.
verify_response_any_session(a, r) ==
    IF SidLen(r.session_id) # 32 \/ SidLen(a.session_id) # 32
    THEN Outcome(a, "could not convert slice to array")
    ELSE IF r.index \notin Indices
    THEN Outcome(a, "vss: index out of bounds in response")
    ELSE IF ~verify_signature(VerifierKey(r.index), r.signature,
                              Response_hash(r.session_id, r.index, r.approved), r.index)
    THEN Outcome(a, "vss: incorrect response signature")
    ELSE add_response(a, r)

\* verify_response without the conversion of the session ids to 32 bytes.
verify_response_unsized(a, r) ==
    IF r.session_id # a.session_id
    THEN Outcome(a, "vss: receiving inconsistent sessionID in response")
    ELSE IF r.index \notin Indices
    THEN Outcome(a, "vss: index out of bounds in response")
    ELSE IF ~verify_signature(VerifierKey(r.index), r.signature,
                              Response_hash(r.session_id, r.index, r.approved), r.index)
    THEN Outcome(a, "vss: incorrect response signature")
    ELSE add_response(a, r)

verify_response(a, r) ==
    IF SidLen(r.session_id) # 32 \/ SidLen(a.session_id) # 32
    THEN Outcome(a, "could not convert slice to array")
    ELSE IF r.session_id # a.session_id
    THEN Outcome(a, "vss: receiving inconsistent sessionID in response")
    ELSE IF r.index \notin Indices
    THEN Outcome(a, "vss: index out of bounds in response")
    ELSE IF ~verify_signature(VerifierKey(r.index), r.signature,
                              Response_hash(r.session_id, r.index, r.approved), r.index)
    THEN Outcome(a, "vss: incorrect response signature")
    ELSE add_response(a, r)

unsafe_set_response_dkg(a, index, approved) ==
    add_response(a, [session_id |-> a.session_id, index |-> index,
                     approved |-> approved, signature |-> EmptySig])

\* clean_verifiers: the loop over 0..n, one index per round.
RECURSIVE CleanFrom(_, _)
CleanFrom(a, i) ==
    IF i >= N THEN a
    ELSE IF i \notin DOMAIN a.responses
    THEN CleanFrom([a EXCEPT !.responses =
                        Insert(a.responses,
                               [session_id |-> a.deal.session_id, index |-> i,
                                approved |-> FALSE, signature |-> EmptySig])],
                   i + 1)
    ELSE CleanFrom(a, i + 1)

\* clean_verifiers without the is_none test: every index gets a complaint.
clean_verifiers_all(a) ==
    [a EXCEPT !.responses =
         [i \in Indices |-> [session_id |-> a.deal.session_id, index |-> i,
                             approved |-> FALSE, signature |-> EmptySig]]]

clean_verifiers(a) == CleanFrom(a, 0)

enough_approvals(a) ==
    Cardinality({i \in DOMAIN a.responses : a.responses[i].approved}) >= a.threshold

\* deal_certified without the test for a zero threshold.
deal_certified_zero_threshold(a) ==
    LET verifiers_stable == \A i \in Indices : i \in DOMAIN a.responses
        too_much_complaints == ~verifiers_stable \/ a.bad_dealer
    IN  enough_approvals(a) /\ ~too_much_complaints

\* deal_certified without the test that every verifier has responded.
deal_certified_unstable(a) ==
    IF a.threshold = 0 THEN FALSE
    ELSE enough_approvals(a) /\ ~a.bad_dealer

deal_certified(a) ==
    IF a.threshold = 0 THEN FALSE
    ELSE LET verifiers_stable == \A i \in Indices : i \in DOMAIN a.responses
             too_much_complaints == ~verifiers_stable \/ a.bad_dealer
         IN  enough_approvals(a) /\ ~too_much_complaints

------------------------------------------------------------------------------
(* Dealer                                                                  *)

\* What a method that also returns a value hands back.
Reply(obj, res, out) == [obj |-> obj, res |-> res, out |-> out]

\* Dealer::new committing to the blinding polynomial with the base G.
Dealer_new_wrong_base(secret, threshold, f_rand, g_coeffs) ==
    IF ~valid_t(threshold) THEN Outcome(<<>>, "Invalid threshold")
    ELSE LET sec_pri_poly == <<secret>> \o f_rand
             rand_pri_poly == g_coeffs
             f_pub == PriPoly_commit(sec_pri_poly, Generator)
             g_pub == PriPoly_commit(rand_pri_poly, Generator)
             commitments == PubPoly_add(f_pub, g_pub)
             sid == session_id(DealerKey, commitments, threshold)
             deals == [k \in 1 .. N |->
                          [session_id |-> sid,
                           sec_share |-> PriPoly_eval(sec_pri_poly, k - 1),
                           rnd_share |-> PriPoly_eval(rand_pri_poly, k - 1),
                           t |-> threshold,
                           commitments |-> commitments]]
         IN  Outcome([secret |-> secret,
                      secret_commits |-> f_pub,
                      t |-> threshold,
                      session_id |-> sid,
                      deals |-> deals,
                      aggregator |-> Aggregator_new(threshold, sid)],
                     "ok")

\* Dealer::new.  f_rand and g_coeffs are the coefficients PriPoly::new draws
\* at random: sec_pri_poly = secret, f_rand...; rand_pri_poly = g_coeffs.
Dealer_new(secret, threshold, f_rand, g_coeffs) ==
    IF ~valid_t(threshold) THEN Outcome(<<>>, "Invalid threshold")
    ELSE LET sec_pri_poly == <<secret>> \o f_rand
             rand_pri_poly == g_coeffs
             f_pub == PriPoly_commit(sec_pri_poly, Generator)
             g_pub == PriPoly_commit(rand_pri_poly, derive_h)
             commitments == PubPoly_add(f_pub, g_pub)
             sid == session_id(DealerKey, commitments, threshold)
             deals == [k \in 1 .. N |->
                          [session_id |-> sid,
                           sec_share |-> PriPoly_eval(sec_pri_poly, k - 1),
                           rnd_share |-> PriPoly_eval(rand_pri_poly, k - 1),
                           t |-> threshold,
                           commitments |-> commitments]]
         IN  Outcome([secret |-> secret,
                      secret_commits |-> f_pub,
                      t |-> threshold,
                      session_id |-> sid,
                      deals |-> deals,
                      aggregator |-> Aggregator_new(threshold, sid)],
                     "ok")

\* dh::dh_exchange: the secret shared by an ephemeral key and a verifier.
dh_exchange(eph, index) == <<eph, index>>

\* Dealer::encrypt_deal sealing the Deal of the next verifier.
Dealer_encrypt_deal_next(d, i, eph) ==
    IF i \notin Indices
    THEN Reply(d, "dealer: wrong index to generate encrypted deal", <<>>)
    ELSE Reply(d, "ok",
               <<[dh_key |-> eph,
                  signature |-> sign_msg(DealerKey, eph, i),
                  nonce |-> 12,
                  cipher |-> [key |-> dh_exchange(eph, i),
                              msg |-> d.deals[((i + 1) % N) + 1]]]>>)

\* Dealer::encrypt_deal; eph is the ephemeral Diffie-Hellman key it draws.
Dealer_encrypt_deal(d, i, eph) ==
    IF i \notin Indices
    THEN Reply(d, "dealer: wrong index to generate encrypted deal", <<>>)
    ELSE Reply(d, "ok",
               <<[dh_key |-> eph,
                  signature |-> sign_msg(DealerKey, eph, i),
                  nonce |-> 12,
                  cipher |-> [key |-> dh_exchange(eph, i), msg |-> d.deals[i + 1]]]>>)

\* Dealer::process_response justifying with the Deal of the next verifier.
Dealer_process_response_wrong_deal(d, r) ==
    LET v == verify_response(d.aggregator, r)
        d2 == [d EXCEPT !.aggregator = v.obj]
        other == d.deals[((r.index + 1) % N) + 1]
    IN  IF v.res # "ok" THEN Reply(d2, v.res, <<>>)
        ELSE IF r.approved THEN Reply(d2, "ok", <<>>)
        ELSE Reply(d2, "ok",
                   <<[session_id |-> d.session_id,
                      index |-> r.index,
                      deal |-> other,
                      signature |-> sign_msg(DealerKey,
                                             Justification_hash(d.session_id, r.index, other),
                                             r.index)]>>)

\* Dealer::process_response.
Dealer_process_response(d, r) ==
    LET v == verify_response(d.aggregator, r)
        d2 == [d EXCEPT !.aggregator = v.obj]
    IN  IF v.res # "ok" THEN Reply(d2, v.res, <<>>)
        ELSE IF r.approved THEN Reply(d2, "ok", <<>>)
        ELSE Reply(d2, "ok",
                   <<[session_id |-> d.session_id,
                      index |-> r.index,
                      deal |-> d.deals[r.index + 1],
                      signature |-> sign_msg(DealerKey,
                                             Justification_hash(d.session_id, r.index,
                                                                d.deals[r.index + 1]),
                                             r.index)]>>)

\* Dealer::secret_commit gated by enough_approvals alone.
Dealer_secret_commit_uncertified(d) ==
    IF ~enough_approvals(d.aggregator)
    THEN Reply(d, "Not enough approvas or the deal is not certified", <<>>)
    ELSE Reply(d, "ok", <<scalar_mul(Generator, d.secret)>>)

\* Dealer::secret_commit.
Dealer_secret_commit(d) ==
    IF ~enough_approvals(d.aggregator) \/ ~deal_certified(d.aggregator)
    THEN Reply(d, "Not enough approvas or the deal is not certified", <<>>)
    ELSE Reply(d, "ok", <<scalar_mul(Generator, d.secret)>>)

\* Dealer::commits.
Dealer_commits(d) ==
    IF ~enough_approvals(d.aggregator) \/ ~deal_certified(d.aggregator)
    THEN Reply(d, "Not enough approvas or the deal is not certified", <<>>)
    ELSE Reply(d, "ok", <<d.secret_commits>>)

\* Dealer::set_timeout.
Dealer_set_timeout(d) == [d EXCEPT !.aggregator = clean_verifiers(d.aggregator)]

\* Dealer::unsafe_set_response_dkg.
Dealer_unsafe_set_response_dkg(d, index, approved) ==
    LET o == unsafe_set_response_dkg(d.aggregator, index, approved)
    IN  Outcome([d EXCEPT !.aggregator = o.obj], o.res)

------------------------------------------------------------------------------
(* Verifier                                                                *)

\* Verifier::new for the verifier whose key is verifiers[index].
Verifier_new(index) == [index |-> index, aggregator |-> Aggregator_new(0, EmptySid)]

\* Verifier::decrypt_deal.
Verifier_decrypt_deal(v, encr_d) ==
    IF ~verify_signature(DealerKey, encr_d.signature, encr_d.dh_key, v.index)
    THEN Reply(v, "vss: signature verification failed", <<>>)
    ELSE IF encr_d.nonce # 12 THEN Reply(v, "panic", <<>>)
    ELSE IF encr_d.cipher.key # dh_exchange(encr_d.dh_key, v.index)
    THEN Reply(v, "vss: failed decrypt AES526-GCM cipher deal", <<>>)
    ELSE Reply(v, "ok", <<encr_d.cipher.msg>>)

\* Verifier::session_id.
Verifier_session_id(v) == v.aggregator.deal.session_id

\* Verifier::process_encrypted_deal.
Verifier_process_encrypted_deal(v, encr_d) ==
    LET dec == Verifier_decrypt_deal(v, encr_d)
    IN  IF dec.res # "ok" THEN Reply(v, dec.res, <<>>)
        ELSE
        LET deal == dec.out[1]
            sid == session_id(DealerKey, deal.commitments, deal.t)
        IN  IF deal.sec_share.i # v.index
            THEN Reply(v, "vss: verifier got wrong index from deal", <<>>)
            ELSE IF deal.session_id # sid
            THEN Reply(v, "vss: session id doesn't match", <<>>)
            ELSE
            LET a1 == IF v.aggregator.threshold = 0
                      THEN Aggregator_new(deal.t, deal.session_id)
                      ELSE v.aggregator
            IN  IF a1.deal.t # 0
                THEN Reply([v EXCEPT !.aggregator = a1],
                           "vss: verifier already received a deal", <<>>)
                ELSE
                LET a2 == [a1 EXCEPT !.session_id = deal.session_id, !.deal = deal]
                    approved == Deal_verify(deal, sid) = "ok"
                    response == [session_id |-> sid,
                                 index |-> v.index,
                                 approved |-> approved,
                                 signature |-> sign_msg(VerifierKey(v.index),
                                                        Response_hash(sid, v.index, approved),
                                                        v.index)]
                    o == add_response(a2, response)
                IN  Reply([v EXCEPT !.aggregator = o.obj], o.res,
                          IF o.res = "ok" THEN <<response>> ELSE <<>>)

\* Verifier::process_justification taking a Justification without a stored
\* complaint for a fault of the dealer.
Verifier_process_justification_strict(v, j) ==
    LET a == v.aggregator
        sid == Verifier_session_id(v)
        bad == [v EXCEPT !.aggregator.bad_dealer = TRUE]
    IN  IF N <= j.index THEN Outcome(v, "vss: index out of bounds in justification")
        ELSE IF sid # j.deal.session_id THEN Outcome(v, "vss: session id doesn't match")
        ELSE IF j.index \notin DOMAIN a.responses
        THEN Outcome(bad, "vss: no complaints received for this justification")
        ELSE IF a.responses[j.index].approved
        THEN Outcome(bad, "vss: justification received for an approval")
        ELSE
        LET a1 == IF a.deal.t = 0
                  THEN [a EXCEPT !.session_id = j.deal.session_id, !.deal = j.deal]
                  ELSE a
            verif == Deal_verify(j.deal, sid)
        IN  IF verif # "ok"
            THEN Outcome([v EXCEPT !.aggregator = [a1 EXCEPT !.bad_dealer = TRUE]], verif)
            ELSE Outcome([v EXCEPT !.aggregator =
                               [a1 EXCEPT !.responses[j.index].approved = TRUE]], "ok")

\* Verifier::process_justification without resp.approved = true.
Verifier_process_justification_no_flip(v, j) ==
    LET a == v.aggregator
        sid == Verifier_session_id(v)
    IN  IF N <= j.index THEN Outcome(v, "vss: index out of bounds in justification")
        ELSE IF sid # j.deal.session_id THEN Outcome(v, "vss: session id doesn't match")
        ELSE IF j.index \notin DOMAIN a.responses
        THEN Outcome(v, "vss: no complaints received for this justification")
        ELSE IF a.responses[j.index].approved
        THEN Outcome(v, "vss: justification received for an approval")
        ELSE
        LET a1 == IF a.deal.t = 0
                  THEN [a EXCEPT !.session_id = j.deal.session_id, !.deal = j.deal]
                  ELSE a
            verif == Deal_verify(j.deal, sid)
        IN  IF verif # "ok"
            THEN Outcome([v EXCEPT !.aggregator = [a1 EXCEPT !.bad_dealer = TRUE]], verif)
            ELSE Outcome([v EXCEPT !.aggregator = a1], "ok")

\* Verifier::process_justification.
Verifier_process_justification(v, j) ==
    LET a == v.aggregator
        sid == Verifier_session_id(v)
    IN  IF N <= j.index THEN Outcome(v, "vss: index out of bounds in justification")
        ELSE IF sid # j.deal.session_id THEN Outcome(v, "vss: session id doesn't match")
        ELSE IF j.index \notin DOMAIN a.responses
        THEN Outcome(v, "vss: no complaints received for this justification")
        ELSE IF a.responses[j.index].approved
        THEN Outcome(v, "vss: justification received for an approval")
        ELSE
        LET a1 == IF a.deal.t = 0
                  THEN [a EXCEPT !.session_id = j.deal.session_id, !.deal = j.deal]
                  ELSE a
            verif == Deal_verify(j.deal, sid)
        IN  IF verif # "ok"
            THEN Outcome([v EXCEPT !.aggregator = [a1 EXCEPT !.bad_dealer = TRUE]], verif)
            ELSE Outcome([v EXCEPT !.aggregator =
                               [a1 EXCEPT !.responses[j.index].approved = TRUE]], "ok")

\* Verifier::set_timeout.
Verifier_set_timeout(v) == [v EXCEPT !.aggregator = clean_verifiers(v.aggregator)]

\* Verifier::get_deal.
Verifier_get_deal(v) ==
    IF ~enough_approvals(v.aggregator) \/ ~deal_certified(v.aggregator)
    THEN Reply(v, "Not enough approvals or deal not certified", <<>>)
    ELSE Reply(v, "ok", <<v.aggregator.deal>>)

\* Verifier::process_response.
Verifier_process_response(v, r) ==
    LET o == verify_response(v.aggregator, r)
    IN  Outcome([v EXCEPT !.aggregator = o.obj], o.res)

\* Verifier::unsafe_set_response_dkg.
Verifier_unsafe_set_response_dkg(v, index, approved) ==
    LET o == unsafe_set_response_dkg(v.aggregator, index, approved)
    IN  Outcome([v EXCEPT !.aggregator = o.obj], o.res)

------------------------------------------------------------------------------
(* Recovery                                                                *)

\* poly::recover_secret: Lagrange interpolation at 0 over the first t shares.
RECURSIVE LagrangeNum(_, _, _)
LagrangeNum(xs, i, j) ==
    IF j > Len(xs) THEN 1
    ELSE IF j = i THEN LagrangeNum(xs, i, j + 1)
    ELSE (xs[j] * LagrangeNum(xs, i, j + 1)) % FieldOrder

RECURSIVE LagrangeDen(_, _, _)
LagrangeDen(xs, i, j) ==
    IF j > Len(xs) THEN 1
    ELSE IF j = i THEN LagrangeDen(xs, i, j + 1)
    ELSE (((xs[j] + FieldOrder - xs[i]) % FieldOrder) * LagrangeDen(xs, i, j + 1))
             % FieldOrder

RECURSIVE LagrangeSum(_, _, _)
LagrangeSum(xs, ys, i) ==
    IF i > Len(xs) THEN 0
    ELSE (ys[i] * LagrangeNum(xs, i, 1) * Inv(LagrangeDen(xs, i, 1))
          + LagrangeSum(xs, ys, i + 1)) % FieldOrder

poly_recover_secret(shares, t) ==
    IF Len(shares) < t THEN Reply(shares, "not enough shares to recover secret", <<>>)
    ELSE LET xs == [k \in 1 .. t |-> XCoord(shares[k].i)]
             ys == [k \in 1 .. t |-> shares[k].v]
         IN  Reply(shares, "ok", <<LagrangeSum(xs, ys, 1)>>)

\* recover_secret collecting rnd_share in place of sec_share.
recover_secret_rnd_share(deals, t) ==
    IF Len(deals) = 0 THEN Reply(deals, "panic", <<>>)
    ELSE IF \E k \in 1 .. Len(deals) : deals[k].session_id # deals[1].session_id
    THEN Reply(deals, "vss: all deals need to have same session id", <<>>)
    ELSE LET shares == [k \in 1 .. Len(deals) |-> deals[k].rnd_share]
             r == poly_recover_secret(shares, t)
         IN  Reply(deals, r.res, r.out)

\* recover_secret.
recover_secret(deals, t) ==
    IF Len(deals) = 0 THEN Reply(deals, "panic", <<>>)
    ELSE IF \E k \in 1 .. Len(deals) : deals[k].session_id # deals[1].session_id
    THEN Reply(deals, "vss: all deals need to have same session id", <<>>)
    ELSE LET shares == [k \in 1 .. Len(deals) |-> deals[k].sec_share]
             r == poly_recover_secret(shares, t)
         IN  Reply(deals, r.res, r.out)

\* No run of the whole cohort is being followed.
NoCohort == <<>>

\* No recover_secret call has been made.
NoRecovery == [indices |-> <<>>, t |-> 0, res |-> "none", out |-> <<>>]

------------------------------------------------------------------------------
(* Inputs the callers may pass                                             *)

\* The secrets a dealer is constructed with.
SecretInputs == {2}

\* The coefficients PriPoly::new draws for a polynomial of t coefficients of
\* which `fixed` are given.
RandInputs(t, fixed) == {[j \in 1 .. (t - fixed) |-> (j + fixed) % FieldOrder]}

\* The Deal a dealer sharing secret + 1 with the same random coefficients
\* would make of d: it verifies, under another session id.
AltDeal(d) ==
    LET c == [d.commitments EXCEPT ![1] = add_point(@, Generator)]
    IN  [d EXCEPT !.commitments = c,
                  !.sec_share.v = (@ + 1) % FieldOrder,
                  !.session_id = session_id(DealerKey, c, d.t)]

\* The Response verifier i signs for (sid, i, approved).
SignedResponse(sid, i, approved) ==
    [session_id |-> sid, index |-> i, approved |-> approved,
     signature |-> sign_msg(VerifierKey(i), Response_hash(sid, i, approved), i)]

\* Signatures that are not verifier i's signature of (sid, i, approved).
ForgedSignatures(sid, i, approved) ==
    {sign_msg(k, Response_hash(sid, i, approved), i) :
         k \in {VerifierKey((i + 1) % N), DealerKey, OutsiderKey}}
    \cup {sign_msg(VerifierKey(i), Response_hash(sid, i, ~approved), i), EmptySig}

ResponseInputs ==
    LET S == dealer.session_id
    IN  {SignedResponse(sid, i, b) :
            sid \in {S, AltDeal(dealer.deals[1]).session_id}, i \in Indices, b \in BOOLEAN}
        \cup {[SignedResponse(S, i, b) EXCEPT !.session_id = EmptySid] :
                 i \in Indices, b \in BOOLEAN}
        \cup UNION {{[SignedResponse(S, i, b) EXCEPT !.signature = sg] :
                        sg \in ForgedSignatures(S, i, b)} : i \in Indices, b \in BOOLEAN}
        \cup {SignedResponse(S, N, b) : b \in BOOLEAN}

\* Responses a peer signs over the empty session id.
EmptySessionResponses ==
    {SignedResponse(EmptySid, i, b) : i \in Indices, b \in BOOLEAN}

\* The Deals a dealer, honest or not, may seal for verifier i.
DealInputs(i) ==
    LET honest == dealer.deals[i + 1]
    IN  {honest,
         dealer.deals[((i + 1) % N) + 1],
         AltDeal(honest),
         [honest EXCEPT !.sec_share.v = (@ + 1) % FieldOrder],
         [honest EXCEPT !.commitments[1] = add_point(@, Generator)],
         [honest EXCEPT !.t = 0,
                        !.session_id = session_id(DealerKey, honest.commitments, 0)]}

\* The honest Deal of verifier i with one part altered: a share value, or the
\* constant-term commitment, with the session id as it was or recomputed.
AlteredDeals(i) ==
    LET honest == dealer.deals[i + 1]
    IN  {[honest EXCEPT !.sec_share.v = (@ + 1) % FieldOrder],
         [honest EXCEPT !.rnd_share.v = (@ + 1) % FieldOrder],
         [honest EXCEPT !.commitments[1] = add_point(@, Generator)],
         [AltDeal(honest) EXCEPT !.sec_share = honest.sec_share]}

\* The envelope the dealer's key makes of deal d for verifier i.
Seal(d, i, eph) ==
    [dh_key |-> eph, signature |-> sign_msg(DealerKey, eph, i), nonce |-> 12,
     cipher |-> [key |-> dh_exchange(eph, i), msg |-> d]]

EncryptedDealInputs(i) ==
    {Seal(d, i, 1) : d \in DealInputs(i)}
    \cup {Seal(dealer.deals[i + 1], (i + 1) % N, 1),
          [Seal(dealer.deals[i + 1], i, 1) EXCEPT !.signature = sign_msg(OutsiderKey, 1, i)],
          [Seal(dealer.deals[i + 1], i, 1) EXCEPT !.cipher.key = dh_exchange(1, (i + 1) % N)],
          [Seal(dealer.deals[i + 1], i, 1) EXCEPT !.nonce = 0]}

\* The Justification the dealer's key makes of deal d for index i.
Justify(sid, i, d) ==
    [session_id |-> sid, index |-> i, deal |-> d,
     signature |-> sign_msg(DealerKey, Justification_hash(sid, i, d), i)]

\* The Justification the honest dealer issues for a complaint of index i.
IssuedJustification(i) == Justify(dealer.session_id, i, dealer.deals[i + 1])

\* The issued Justification of index i altered on its way: another index,
\* another session_id field, a signature of another key, no signature.
TamperedJustifications(i) ==
    {[IssuedJustification(i) EXCEPT !.index = (i + 1) % N],
     [IssuedJustification(i) EXCEPT !.session_id = AltDeal(dealer.deals[i + 1]).session_id],
     [IssuedJustification(i) EXCEPT
          !.signature = sign_msg(OutsiderKey,
                                 Justification_hash(dealer.session_id, i, dealer.deals[i + 1]),
                                 i)],
     [IssuedJustification(i) EXCEPT !.signature = EmptySig]}

JustificationInputs ==
    UNION {{Justify(d.session_id, i, d) : d \in DealInputs(i)} : i \in Indices}
    \cup UNION {TamperedJustifications(i) : i \in Indices}
    \cup {Justify(dealer.session_id, N, dealer.deals[1])}

------------------------------------------------------------------------------
(* The state machine: one Dealer or one Verifier driven by its callers.    *)
(* A call that returns an error and a query leave the object as it was;   *)
(* what a call returns is the res and out of the method's operator.       *)

\* The indices of the verifiers followed: the first and the last.
VerifierInputs == {0, N - 1}

Init ==
    \E s \in SecretInputs, t \in 2 .. N, i \in VerifierInputs :
    \E fr \in RandInputs(t, 1), g \in RandInputs(t, 0) :
        /\ role \in {"Dealer", "Verifier"}
        /\ role = "Dealer" => i = 0
        /\ dealer = Dealer_new(s, t, fr, g).obj
        /\ verifier = Verifier_new(i)
        /\ recovery = NoRecovery
        /\ cohort = NoCohort

DealerProcessResponse(r) ==
    /\ role = "Dealer"
    /\ dealer' = Dealer_process_response(dealer, r).obj
    /\ UNCHANGED <<role, verifier, recovery, cohort>>

\* The ephemeral key the dealer draws in encrypt_deal.
EphemeralInputs == {1}

DealerEncryptDeal(i, eph) ==
    /\ role = "Dealer"
    /\ dealer' = Dealer_encrypt_deal(dealer, i, eph).obj
    /\ UNCHANGED <<role, verifier, recovery, cohort>>

DealerSecretCommit ==
    /\ role = "Dealer"
    /\ dealer' = Dealer_secret_commit(dealer).obj
    /\ UNCHANGED <<role, verifier, recovery, cohort>>

DealerCommits ==
    /\ role = "Dealer"
    /\ dealer' = Dealer_commits(dealer).obj
    /\ UNCHANGED <<role, verifier, recovery, cohort>>

DealerSetTimeout ==
    /\ role = "Dealer"
    /\ dealer' = Dealer_set_timeout(dealer)
    /\ UNCHANGED <<role, verifier, recovery, cohort>>

DealerUnsafeSetResponseDkg(i, b) ==
    /\ role = "Dealer"
    /\ dealer' = Dealer_unsafe_set_response_dkg(dealer, i, b).obj
    /\ UNCHANGED <<role, verifier, recovery, cohort>>

VerifierProcessEncryptedDeal(e) ==
    /\ role = "Verifier"
    /\ verifier' = Verifier_process_encrypted_deal(verifier, e).obj
    /\ UNCHANGED <<role, dealer, recovery, cohort>>

VerifierProcessResponse(r) ==
    /\ role = "Verifier"
    /\ verifier' = Verifier_process_response(verifier, r).obj
    /\ UNCHANGED <<role, dealer, recovery, cohort>>

VerifierProcessJustification(j) ==
    /\ role = "Verifier"
    /\ verifier' = Verifier_process_justification(verifier, j).obj
    /\ UNCHANGED <<role, dealer, recovery, cohort>>

VerifierSetTimeout ==
    /\ role = "Verifier"
    /\ verifier' = Verifier_set_timeout(verifier)
    /\ UNCHANGED <<role, dealer, recovery, cohort>>

VerifierUnsafeSetResponseDkg(i, b) ==
    /\ role = "Verifier"
    /\ verifier' = Verifier_unsafe_set_response_dkg(verifier, i, b).obj
    /\ UNCHANGED <<role, dealer, recovery, cohort>>

VerifierGetDeal ==
    /\ role = "Verifier"
    /\ verifier' = Verifier_get_deal(verifier).obj
    /\ UNCHANGED <<role, dealer, recovery, cohort>>

Next ==
    \/ \E r \in ResponseInputs : DealerProcessResponse(r)
    \/ \E i \in 0 .. N, eph \in EphemeralInputs : DealerEncryptDeal(i, eph)
    \/ DealerSecretCommit
    \/ DealerCommits
    \/ DealerSetTimeout
    \/ \E i \in 0 .. N, b \in BOOLEAN : DealerUnsafeSetResponseDkg(i, b)
    \/ \E e \in EncryptedDealInputs(verifier.index) : VerifierProcessEncryptedDeal(e)
    \/ \E r \in ResponseInputs : VerifierProcessResponse(r)
    \/ \E j \in JustificationInputs : VerifierProcessJustification(j)
    \/ VerifierSetTimeout
    \/ \E i \in 0 .. N, b \in BOOLEAN : VerifierUnsafeSetResponseDkg(i, b)
    \/ VerifierGetDeal

Spec == Init /\ [][Next]_vars

------------------------------------------------------------------------------
(* Recovery from the Deals of an honest dealer                             *)

\* Every polynomial of t coefficients.
AllCoeffs(t) == [1 .. t -> Scalars]

\* The lists of distinct verifier indices, of every length up to n.
IndexLists == {q \in UNION {[1 .. k -> Indices] : k \in 0 .. N} :
                  \A a, b \in DOMAIN q : a # b => q[a] # q[b]}

InitRecover ==
    \E t \in 2 .. N :
    \E f \in AllCoeffs(t), g \in RandInputs(t, 0) :
        /\ role = "Recover"
        /\ dealer = Dealer_new(f[1], t, SubSeq(f, 2, t), g).obj
        /\ verifier = Verifier_new(0)
        /\ recovery = NoRecovery
        /\ cohort = NoCohort

\* recover_secret on the Deals of the verifiers listed in q; one call is
\* recorded per dealer, the function keeps no state between calls.
Recover(q) ==
    /\ role = "Recover"
    /\ recovery = NoRecovery
    /\ LET o == recover_secret([k \in 1 .. Len(q) |-> dealer.deals[q[k] + 1]], dealer.t)
       IN  recovery' = [indices |-> q, t |-> dealer.t, res |-> o.res, out |-> o.out]
    /\ UNCHANGED <<role, dealer, verifier, cohort>>

NextRecover == \E q \in IndexLists : Recover(q)

SpecRecover == InitRecover /\ [][NextRecover]_vars

------------------------------------------------------------------------------
(* A run of an honest dealer with its n honest verifiers.  The transport   *)
(* hands every EncryptedDeal to its verifier and every Response a verifier *)
(* has emitted to the dealer and to every other verifier; a message turned *)
(* away by its recipient stays available to be handed over again.          *)

InitHonest ==
    \E s \in SecretInputs, t \in 2 .. N :
    \E fr \in RandInputs(t, 1), g \in RandInputs(t, 0) :
        /\ role = "Honest"
        /\ dealer = Dealer_new(s, t, fr, g).obj
        /\ verifier = Verifier_new(0)
        /\ recovery = NoRecovery
        /\ cohort = [i \in Indices |-> Verifier_new(i)]

\* The EncryptedDeal the dealer makes for verifier i.
HonestEncryptedDeal(i) == Dealer_encrypt_deal(dealer, i, 1).out[1]

\* Verifier i has emitted its Response.
Emitted(i) == i \in DOMAIN cohort[i].aggregator.responses

\* The Response verifier i emitted: the one it recorded at its own index,
\* with the approved flag it signed (process_justification may since have
\* flipped the flag of the stored copy).
EmittedResponse(i) ==
    LET r == cohort[i].aggregator.responses[i]
    IN  [r EXCEPT !.approved = (r.signature.msg = Response_hash(r.session_id, i, TRUE))]

\* Verifier i processes the EncryptedDeal made for it.
DeliverDeal(i) ==
    /\ role = "Honest"
    /\ cohort' = [cohort EXCEPT
                      ![i] = Verifier_process_encrypted_deal(@, HonestEncryptedDeal(i)).obj]
    /\ UNCHANGED <<role, dealer, verifier, recovery>>

\* The dealer processes the Response of verifier i.
DeliverResponseToDealer(i) ==
    /\ role = "Honest"
    /\ Emitted(i)
    /\ dealer' = Dealer_process_response(dealer, EmittedResponse(i)).obj
    /\ UNCHANGED <<role, verifier, recovery, cohort>>

\* Verifier k processes the Response of verifier i.
DeliverResponseToVerifier(i, k) ==
    /\ role = "Honest"
    /\ i # k
    /\ Emitted(i)
    /\ cohort' = [cohort EXCEPT ![k] = Verifier_process_response(@, EmittedResponse(i)).obj]
    /\ UNCHANGED <<role, dealer, verifier, recovery>>

NextHonest ==
    \/ \E i \in Indices : DeliverDeal(i)
    \/ \E i \in Indices : DeliverResponseToDealer(i)
    \/ \E i, k \in Indices : DeliverResponseToVerifier(i, k)

\* Fair delivery: a message that can still be recorded is handed over.
SpecHonest == InitHonest /\ [][NextHonest]_vars /\ WF_vars(NextHonest)

------------------------------------------------------------------------------
(* A run in which the Deal of one verifier goes wrong.  The envelopes on   *)
(* the way to a verifier may be altered; the Deal sealed for the last      *)
(* verifier carries a wrong share, so that verifier complains, the dealer  *)
(* answers the complaint with a Justification and the Justification is     *)
(* handed to every verifier.                                               *)

\* The verifier whose Deal goes wrong.
Victim == N - 1

\* The EncryptedDeal of verifier i altered on its way: the ciphertext, the
\* signature, the ephemeral key.
AlteredEnvelopes(i) ==
    LET e == HonestEncryptedDeal(i)
    IN  {[e EXCEPT !.cipher.msg = [@ EXCEPT !.sec_share.v = (@ + 1) % FieldOrder],
                   !.cipher.key = <<"altered">>],
         [e EXCEPT !.cipher.key = <<"altered">>],
         [e EXCEPT !.signature = sign_msg(OutsiderKey, e.dh_key, i)],
         [e EXCEPT !.dh_key = e.dh_key + 1]}

\* The EncryptedDeal the dealer's key seals around a Deal for the victim
\* whose sec_share value is wrong.
FaultyEncryptedDeal ==
    Seal([dealer.deals[Victim + 1] EXCEPT !.sec_share.v = (@ + 1) % FieldOrder], Victim, 1)

InitJustified == InitHonest

\* Verifier i, not the victim, processes the EncryptedDeal made for it.
DeliverHonestDeal(i) ==
    /\ i # Victim
    /\ DeliverDeal(i)

\* Verifier i processes an EncryptedDeal that was altered on its way.
DeliverAlteredDeal(i, e) ==
    /\ role = "Honest"
    /\ cohort' = [cohort EXCEPT ![i] = Verifier_process_encrypted_deal(@, e).obj]
    /\ UNCHANGED <<role, dealer, verifier, recovery>>

\* The victim processes the EncryptedDeal that seals the faulty Deal.
DeliverFaultyDeal ==
    /\ role = "Honest"
    /\ cohort' = [cohort EXCEPT
                      ![Victim] = Verifier_process_encrypted_deal(@, FaultyEncryptedDeal).obj]
    /\ UNCHANGED <<role, dealer, verifier, recovery>>

\* The dealer has recorded the complaint of verifier i, and so has returned
\* a Justification for it.
Justified(i) ==
    /\ i \in DOMAIN dealer.aggregator.responses
    /\ ~dealer.aggregator.responses[i].approved

\* Verifier k processes the Justification the dealer returned for the
\* complaint of verifier i.
DeliverJustification(i, k) ==
    /\ role = "Honest"
    /\ Justified(i)
    /\ cohort' = [cohort EXCEPT
                      ![k] = Verifier_process_justification(@, IssuedJustification(i)).obj]
    /\ UNCHANGED <<role, dealer, verifier, recovery>>

NextJustified ==
    \/ \E i \in Indices : DeliverHonestDeal(i)
    \/ \E i \in Indices : \E e \in AlteredEnvelopes(i) : DeliverAlteredDeal(i, e)
    \/ DeliverFaultyDeal
    \/ \E i \in Indices : DeliverResponseToDealer(i)
    \/ \E i, k \in Indices : DeliverResponseToVerifier(i, k)
    \/ \E i, k \in Indices : DeliverJustification(i, k)

SpecJustified == InitJustified /\ [][NextJustified]_vars /\ WF_vars(NextJustified)

------------------------------------------------------------------------------
(* Properties                                                              *)

\* The aggregators of the two parties.
Aggregators == {dealer.aggregator, verifier.aggregator}

\* The indices whose stored Response is an approval.
ApprovedIndices(a) == {i \in DOMAIN a.responses : a.responses[i].approved}

C2_GatedByCertification ==
    LET dok == enough_approvals(dealer.aggregator) /\ deal_certified(dealer.aggregator)
        vok == enough_approvals(verifier.aggregator) /\ deal_certified(verifier.aggregator)
        sc == Dealer_secret_commit(dealer)
        cm == Dealer_commits(dealer)
        gd == Verifier_get_deal(verifier)
    IN  /\ (sc.res = "ok") <=> dok
        /\ (cm.res = "ok") <=> dok
        /\ (gd.res = "ok") <=> vok
        /\ Len(sc.out) = (IF dok THEN 1 ELSE 0)
        /\ Len(cm.out) = (IF dok THEN 1 ELSE 0)
        /\ Len(gd.out) = (IF vok THEN 1 ELSE 0)
        /\ sc.obj = dealer /\ cm.obj = dealer /\ gd.obj = verifier

\* A dealer with t = n that holds n - 1 approvals: secret_commit fails.
C2_Witness ==
    /\ role = "Dealer"
    /\ dealer.t = N
    /\ Cardinality(ApprovedIndices(dealer.aggregator)) = N - 1
    /\ Dealer_secret_commit(dealer).res # "ok"

\* C3: for an honest dealer with secret s and threshold t, recover_secret on
\* any t or more of the n Deals built by Dealer::new, in any order, returns s.
C3_RecoverReturnsSecret ==
    (recovery.res # "none" /\ Len(recovery.indices) >= dealer.t) =>
        /\ recovery.res = "ok"
        /\ recovery.out = <<dealer.secret>>

\* recover_secret has returned from exactly t Deals, none of them Deal 0.
C3_Witness ==
    /\ recovery.res = "ok"
    /\ Len(recovery.indices) = dealer.t
    /\ \A k \in DOMAIN recovery.indices : recovery.indices[k] # 0
    /\ dealer.secret # 0

\* A process_justification call whose Deal verification fails: the step that
\* sets bad_dealer.
FailedJustificationStep ==
    \E j \in JustificationInputs :
        /\ VerifierProcessJustification(j)
        /\ Verifier_process_justification(verifier, j).res # "ok"
        /\ ~verifier.aggregator.bad_dealer
        /\ verifier'.aggregator.bad_dealer

\* C4: if deal_certified() is true in one state and false in the next, the
\* step between them is a process_justification call whose Deal verification
\* failed; no other operation turns deal_certified from true to false.
C4_CertifiedLostOnlyByFailedJustification ==
    [][((deal_certified(dealer.aggregator) /\ ~deal_certified(dealer'.aggregator))
        \/ (deal_certified(verifier.aggregator) /\ ~deal_certified(verifier'.aggregator)))
       => FailedJustificationStep]_vars

\* A verifier that would be certified (enough approvals, every index
\* answered) had a Justification for the remaining complaint not failed.
C4_Witness ==
    /\ role = "Verifier"
    /\ verifier.aggregator.bad_dealer
    /\ verifier.aggregator.threshold > 0
    /\ enough_approvals(verifier.aggregator)
    /\ Indices \subseteq DOMAIN verifier.aggregator.responses
    /\ \E i \in Indices : ~verifier.aggregator.responses[i].approved

\* A process_encrypted_deal call has cached a Deal and returned a Response.
\* Only that call gives the cached Deal a session id: Verifier::new and the
\* Aggregator it builds cache Deal::default(), whose session id is empty, and
\* process_justification adopts only a Deal that carries the cached session id.
DealReceived == verifier.aggregator.deal.session_id # EmptySid

\* C5: a Verifier accepts exactly one Deal per run: once a
\* process_encrypted_deal call has cached a Deal and returned a Response,
\* every later process_encrypted_deal call returns an error and leaves the
\* cached Deal, the session id and the stored Responses unchanged.
C5_OneDealPerRun ==
    DealReceived =>
        \A e \in EncryptedDealInputs(verifier.index) :
            LET o == Verifier_process_encrypted_deal(verifier, e)
            IN  o.res # "ok" /\ o.obj = verifier

\* The Responses unsafe_set_response_dkg hands to add_response.
UnsafeResponses(a) ==
    {[session_id |-> a.session_id, index |-> i, approved |-> b, signature |-> EmptySig] :
         i \in 0 .. N, b \in BOOLEAN}

DuplicateError == "vss: already existing response from same origin"

OwnSignature(r, sid) ==
    /\ r.index \in Indices
    /\ r.signature =
           sign_msg(VerifierKey(r.index), Response_hash(sid, r.index, r.approved), r.index)

\* C7: process_response on a Dealer or a Verifier records a Response r only
\* if r carries the signature of the key of verifiers[r.index] over the
\* transcript (session_id, index, approved); a Response signed by any other
\* key, or over another transcript, is rejected with an error and the stored
\* Responses are unchanged.
C7_ForgeryResistance ==
    \A r \in ResponseInputs :
        LET d == Dealer_process_response(dealer, r)
            v == Verifier_process_response(verifier, r)
        IN  /\ d.res = "ok" =>
                   /\ OwnSignature(r, dealer.aggregator.session_id)
                   /\ d.obj.aggregator.responses[r.index] = r
            /\ v.res = "ok" =>
                   /\ OwnSignature(r, verifier.aggregator.session_id)
                   /\ v.obj.aggregator.responses[r.index] = r
            /\ ~OwnSignature(r, dealer.aggregator.session_id) =>
                   d.res # "ok" /\ d.obj = dealer
            /\ ~OwnSignature(r, verifier.aggregator.session_id) =>
                   v.res # "ok" /\ v.obj = verifier

\* A verifier that has its Deal turns away a Response for a free index of
\* its own session that another verifier's key signed.
C7_Witness ==
    /\ role = "Verifier"
    /\ \E r \in ResponseInputs :
           /\ r.session_id = verifier.aggregator.session_id
           /\ r.index \in Indices \ DOMAIN verifier.aggregator.responses
           /\ r.signature = sign_msg(VerifierKey((r.index + 1) % N),
                                     Response_hash(r.session_id, r.index, r.approved),
                                     r.index)
           /\ Verifier_process_response(verifier, r).res =
                  "vss: incorrect response signature"

\* C8: verify_response rejects a Response whose session_id differs from the
\* aggregator's session_id or is not 32 bytes long, and a Response whose
\* index is not in [0,n): it returns an error and the aggregator (responses,
\* bad_dealer, cached deal) is unchanged.
C8_SessionAndIndexChecked ==
    \A a \in Aggregators :
    \A r \in ResponseInputs :
        (r.session_id # a.session_id \/ SidLen(r.session_id) # 32 \/ r.index \notin Indices)
            => /\ verify_response(a, r).res # "ok"
               /\ verify_response(a, r).obj = a

\* An aggregator with a session id turns away a Response that its sender
\* signed for another session and whose index is free.
C8_Witness ==
    \E a \in Aggregators :
    \E r \in ResponseInputs :
        /\ SidLen(a.session_id) = 32
        /\ SidLen(r.session_id) = 32
        /\ r.session_id # a.session_id
        /\ OwnSignature(r, r.session_id)
        /\ r.index \notin DOMAIN a.responses
        /\ a.responses # NoResponses
        /\ verify_response(a, r).res = "vss: receiving inconsistent sessionID in response"

\* The dealer's aggregator accepts r: right session id, index in range,
\* signature of verifiers[r.index], no Response stored at r.index.
DealerAccepts(r) ==
    /\ SidLen(r.session_id) = 32
    /\ r.session_id = dealer.aggregator.session_id
    /\ OwnSignature(r, r.session_id)
    /\ r.index \notin DOMAIN dealer.aggregator.responses

\* C9: Dealer.process_response(r) returns an error and no Justification if r
\* fails the aggregator's verification; if r is accepted it is recorded, and
\* the call returns no Justification for an approval, and for a complaint a
\* Justification whose index is r.index, whose session_id is the dealer's and
\* whose deal is the dealer's deals[r.index].
C9_DealerProcessResponse ==
    \A r \in ResponseInputs :
        LET o == Dealer_process_response(dealer, r)
        IN  IF ~DealerAccepts(r)
            THEN o.res # "ok" /\ o.out = <<>>
            ELSE /\ o.res = "ok"
                 /\ o.obj.aggregator.responses = Insert(dealer.aggregator.responses, r)
                 /\ IF r.approved THEN o.out = <<>>
                    ELSE /\ Len(o.out) = 1
                         /\ o.out[1].index = r.index
                         /\ o.out[1].session_id = dealer.session_id
                         /\ o.out[1].deal = dealer.deals[r.index + 1]

\* The dealer has recorded a verifier's signed complaint.
C9_Witness ==
    /\ role = "Dealer"
    /\ \E i \in DOMAIN dealer.aggregator.responses :
           /\ ~dealer.aggregator.responses[i].approved
           /\ OwnSignature(dealer.aggregator.responses[i], dealer.session_id)

\* C10: when a Verifier holds a complaint at index j and processes a
\* Justification for j whose deal carries the verifier's session id and
\* passes Deal verification (as the honest dealer's does), the call succeeds,
\* the stored Response at j becomes an approval, and bad_dealer and the
\* Responses at all other indices are unchanged.
C10_JustificationFixesComplaint ==
    \A j \in JustificationInputs :
        LET a == verifier.aggregator
            sid == Verifier_session_id(verifier)
            o == Verifier_process_justification(verifier, j)
        IN  (/\ j.index \in DOMAIN a.responses
             /\ ~a.responses[j.index].approved
             /\ j.deal.session_id = sid
             /\ Deal_verify(j.deal, sid) = "ok")
            => /\ o.res = "ok"
               /\ o.obj.aggregator.responses = [a.responses EXCEPT ![j.index].approved = TRUE]
               /\ o.obj.aggregator.bad_dealer = a.bad_dealer

\* A verifier of the honest dealer's session stores, as an approval, the
\* Response another verifier signed as a complaint.
C10_Witness ==
    /\ role = "Verifier"
    /\ verifier.aggregator.session_id = dealer.session_id
    /\ ~verifier.aggregator.bad_dealer
    /\ \E i \in DOMAIN verifier.aggregator.responses :
           /\ i # verifier.index
           /\ verifier.aggregator.responses[i].approved
           /\ verifier.aggregator.responses[i].signature =
                  sign_msg(VerifierKey(i), Response_hash(dealer.session_id, i, FALSE), i)

\* The verifier runs the honest dealer's session and holds a complaint at
\* index k.
HoldsComplaint(k) ==
    /\ Verifier_session_id(verifier) = dealer.session_id
    /\ k \in DOMAIN verifier.aggregator.responses
    /\ ~verifier.aggregator.responses[k].approved

\* C11: when a Verifier holding a complaint at the Justification's index
\* processes a Justification that differs from the one the dealer issued for
\* that complaint (altered index, altered deal shares or commitments, altered
\* session_id field or altered signature), the call returns an error,
\* bad_dealer becomes true and the complaint is not flipped to approved.
C11_TamperedJustificationSetsBadDealer ==
    \A j \in JustificationInputs :
        (j.index \in Indices /\ HoldsComplaint(j.index) /\ j # IssuedJustification(j.index))
            => LET o == Verifier_process_justification(verifier, j)
               IN  /\ o.res # "ok"
                   /\ o.obj.aggregator.bad_dealer
                   /\ ~o.obj.aggregator.responses[j.index].approved

\* C12: once a Verifier's aggregator has bad_dealer = true, bad_dealer is
\* true, deal_certified() is false and get_deal() fails in every later state,
\* whatever process_encrypted_deal, process_response, process_justification,
\* set_timeout and unsafe_set_response_dkg calls follow.
C12_BadDealerPermanent ==
    [][verifier.aggregator.bad_dealer =>
           /\ verifier'.aggregator.bad_dealer
           /\ ~deal_certified(verifier'.aggregator)
           /\ Verifier_get_deal(verifier').res # "ok"]_vars

\* C13: after set_timeout() on a Dealer or a Verifier every index in [0,n)
\* has a stored Response; every Response stored before the call is unchanged
\* (same approved flag, session id and signature); every Response the call
\* creates has approved = false and an empty signature.
C13_TimeoutSynthesis ==
    /\ Dealer_set_timeout(dealer).aggregator = clean_verifiers(dealer.aggregator)
    /\ Verifier_set_timeout(verifier).aggregator = clean_verifiers(verifier.aggregator)
    /\ \A a \in Aggregators :
           LET b == clean_verifiers(a)
           IN  /\ DOMAIN b.responses = Indices \cup DOMAIN a.responses
               /\ \A i \in DOMAIN a.responses : b.responses[i] = a.responses[i]
               /\ \A i \in DOMAIN b.responses \ DOMAIN a.responses :
                      /\ b.responses[i].index = i
                      /\ ~b.responses[i].approved
                      /\ b.responses[i].signature = EmptySig

\* A dealer after set_timeout: every index answered, one by a signed approval
\* received before the call, one by a Response the call created (only those
\* carry the dealer's cached Deal's empty session id).
C13_Witness ==
    /\ role = "Dealer"
    /\ Indices \subseteq DOMAIN dealer.aggregator.responses
    /\ \E i, k \in Indices :
           /\ dealer.aggregator.responses[i].approved
           /\ OwnSignature(dealer.aggregator.responses[i], dealer.session_id)
           /\ dealer.aggregator.responses[k].session_id = EmptySid
           /\ dealer.aggregator.responses[k].signature = EmptySig

\* The Deal d is the honest Deal of the verifier's index with a share value
\* altered and the commitments left alone.
ShareAltered(d) ==
    LET honest == dealer.deals[verifier.index + 1]
    IN  /\ d.commitments = honest.commitments /\ d.t = honest.t
        /\ d.session_id = honest.session_id
        /\ d.sec_share.i = verifier.index /\ d.rnd_share.i = verifier.index
        /\ (d.sec_share.v # honest.sec_share.v \/ d.rnd_share.v # honest.rnd_share.v)

\* The Deal d is the honest Deal of the verifier's index with a commitment
\* altered and the shares left alone.
CommitmentAltered(d) ==
    LET honest == dealer.deals[verifier.index + 1]
    IN  /\ d.commitments # honest.commitments /\ d.t = honest.t
        /\ d.sec_share = honest.sec_share /\ d.rnd_share = honest.rnd_share

\* process_encrypted_deal of d returns a complaint recorded at the
\* verifier's own index.
ComplaintRecorded(d) ==
    LET o == Verifier_process_encrypted_deal(verifier, Seal(d, verifier.index, 1))
    IN  /\ o.res = "ok"
        /\ Len(o.out) = 1
        /\ ~o.out[1].approved
        /\ o.out[1].index = verifier.index
        /\ o.obj.aggregator.responses[verifier.index] = o.out[1]

HonestAggregators == {dealer.aggregator} \cup {cohort[i].aggregator : i \in Indices}

\* Every party of the honest run holds a certified deal.
AllCertified == role = "Honest" /\ \A a \in HonestAggregators : deal_certified(a)

\* What holds throughout the honest run: each honest Deal satisfies
\* f_i*G + g_i*H = C(i); a verifier that has not emitted a Response emits an
\* approval when it processes its EncryptedDeal, and an emitted Response is
\* an approval; a party is certified exactly when all n indices have a
\* Response.
HonestRunSafety ==
    /\ \A i \in Indices :
           /\ Deal_verify(dealer.deals[i + 1], dealer.session_id) = "ok"
           /\ Emitted(i) => EmittedResponse(i) = SignedResponse(dealer.session_id, i, TRUE)
           /\ ~Emitted(i) =>
                  LET o == Verifier_process_encrypted_deal(cohort[i], HonestEncryptedDeal(i))
                  IN  /\ o.res = "ok"
                      /\ o.out = <<SignedResponse(dealer.session_id, i, TRUE)>>
    /\ \A a \in HonestAggregators :
           deal_certified(a) <=> Indices \subseteq DOMAIN a.responses

C16_RoundTrip ==
    \A eph \in EphemeralInputs :
        /\ \A i \in Indices :
               LET e == Dealer_encrypt_deal(dealer, i, eph)
               IN  /\ e.res = "ok" /\ Len(e.out) = 1 /\ e.obj = dealer
                   /\ \A v \in {Verifier_new(j) : j \in Indices} \cup {verifier} :
                          LET o == Verifier_decrypt_deal(v, e.out[1])
                          IN  IF v.index = i
                              THEN o.res = "ok" /\ o.out = <<dealer.deals[i + 1]>>
                              ELSE o.res \notin {"ok", "panic"} /\ o.out = <<>>
        /\ \A i \in {N, N + 1} :
               LET e == Dealer_encrypt_deal(dealer, i, eph)
               IN  e.res # "ok" /\ e.out = <<>> /\ e.obj = dealer

\* A verifier other than verifier 0 has cached the Deal it decrypted from
\* the dealer's encrypt_deal of its index, which is not the Deal of index 0.
C16_Witness ==
    /\ role = "Verifier"
    /\ verifier.index # 0
    /\ Dealer_encrypt_deal(dealer, verifier.index, 1).out[1]
           \in EncryptedDealInputs(verifier.index)
    /\ verifier.aggregator.deal = dealer.deals[verifier.index + 1]
    /\ verifier.aggregator.deal # dealer.deals[1]
    /\ Verifier_decrypt_deal(verifier, Dealer_encrypt_deal(dealer, 0, 1).out[1]).res # "ok"

\* The result that stands for a call that aborts instead of returning.
Panic == "panic"

\* C17: every public operation, called with any input in any reachable
\* state (recover_secret on an empty deal list or on fewer than t deals, an
\* EncryptedDeal whose nonce is not 12 bytes long, a Response or a
\* Justification with an out-of-range index), finishes by returning a result
\* or an error value, never by aborting.
C17_NoOperationPanics ==
    /\ \A e \in EncryptedDealInputs(verifier.index) :
           /\ Verifier_decrypt_deal(verifier, e).res # Panic
           /\ Verifier_process_encrypted_deal(verifier, e).res # Panic
    /\ \A r \in ResponseInputs :
           /\ Dealer_process_response(dealer, r).res # Panic
           /\ Verifier_process_response(verifier, r).res # Panic
    /\ \A j \in JustificationInputs :
           Verifier_process_justification(verifier, j).res # Panic
    /\ \A i \in 0 .. N :
           /\ Dealer_encrypt_deal(dealer, i, 1).res # Panic
           /\ \A b \in BOOLEAN :
                  /\ Dealer_unsafe_set_response_dkg(dealer, i, b).res # Panic
                  /\ Verifier_unsafe_set_response_dkg(verifier, i, b).res # Panic
    /\ \A k \in 0 .. N :
           recover_secret([x \in 1 .. k |-> dealer.deals[x]], dealer.t).res # Panic

\* The thresholds a caller may pass to Dealer::new.
ThresholdInputs == 0 .. (N + 1)

\* d holds exactly n Deals; deal i has sec_share.i = rnd_share.i = i,
\* threshold t, exactly t commitments and the session id of the dealer and
\* of its aggregator.
WellFormedDealer(d, t) ==
    /\ d.t = t
    /\ Len(d.deals) = N
    /\ d.aggregator.session_id = d.session_id
    /\ d.aggregator.threshold = t
    /\ \A i \in Indices :
           /\ d.deals[i + 1].sec_share.i = i
           /\ d.deals[i + 1].rnd_share.i = i
           /\ d.deals[i + 1].t = t
           /\ Len(d.deals[i + 1].commitments) = t
           /\ d.deals[i + 1].session_id = d.session_id

SuccessfulJustificationStep ==
    \E j \in JustificationInputs :
        /\ VerifierProcessJustification(j)
        /\ Verifier_process_justification(verifier, j).res = "ok"

\* From the responses before a step to those after it: every index answered
\* stays answered, and an approved flag changes only from false to true and
\* only in a successful process_justification step.
ResponsesKept(before, after) ==
    \A i \in DOMAIN before :
        /\ i \in DOMAIN after
        /\ after[i].approved # before[i].approved =>
               /\ ~before[i].approved
               /\ after[i].approved
               /\ SuccessfulJustificationStep

\* C19: in any sequence of operations on a Dealer or a Verifier, once an
\* index has a stored Response it has a stored Response in every later state,
\* and its approved flag changes only from false to true and only through a
\* successful process_justification.
C19_ResponsesMonotonic ==
    [][/\ ResponsesKept(dealer.aggregator.responses, dealer'.aggregator.responses)
       /\ ResponsesKept(verifier.aggregator.responses, verifier'.aggregator.responses)]_vars

\* Once every index is answered, set_timeout changes nothing more, and an
\* index answered by an unsigned Response (as those made by set_timeout)
\* is still answered by an unsigned Response after the step.
TimeoutKept(a, after) ==
    Indices \subseteq DOMAIN a.responses =>
        /\ clean_verifiers(a) = a
        /\ \A i \in Indices :
               a.responses[i].signature = EmptySig =>
                   /\ i \in DOMAIN after.responses
                   /\ after.responses[i].signature = EmptySig

\* C20: a second set_timeout() call in a state where every index already
\* has a Response changes nothing; and after set_timeout() no later call
\* replaces the Response of an index that the timeout filled: a Response
\* submitted for it is rejected as a duplicate, so a late genuine approval
\* cannot replace the synthesized complaint.
C20_TimeoutIsFinal ==
    [][/\ TimeoutKept(dealer.aggregator, dealer'.aggregator)
       /\ TimeoutKept(verifier.aggregator, verifier'.aggregator)]_vars

\* The Justification j fails one of the tests process_justification makes
\* before it looks at the Deal's shares.
JustificationOutOfPlace(j) ==
    \/ j.index \notin Indices
    \/ j.deal.session_id # Verifier_session_id(verifier)
    \/ j.index \notin DOMAIN verifier.aggregator.responses
    \/ verifier.aggregator.responses[j.index].approved

\* C21: process_justification returns an error and leaves the whole
\* Verifier unchanged (responses, bad_dealer, cached deal, session id) when
\* the Justification's index is out of range, when its deal's session_id
\* differs from the verifier's session id, when no Response is stored at that
\* index, or when the Response stored at that index is already approved.
C21_JustificationRejectedUnchanged ==
    \A j \in JustificationInputs :
        JustificationOutOfPlace(j) =>
            /\ Verifier_process_justification(verifier, j).res # "ok"
            /\ Verifier_process_justification(verifier, j).obj = verifier

\* A verifier that is not flagged turns away, for an index it holds an
\* approval of, a Justification of its own session whose Deal does not verify.
C21_Witness ==
    /\ role = "Verifier"
    /\ ~verifier.aggregator.bad_dealer
    /\ \E j \in JustificationInputs :
           /\ j.index \in DOMAIN verifier.aggregator.responses
           /\ verifier.aggregator.responses[j.index].approved
           /\ j.deal.session_id = Verifier_session_id(verifier)
           /\ Deal_verify(j.deal, j.deal.session_id) # "ok"
           /\ Verifier_process_justification(verifier, j).res =
                  "vss: justification received for an approval"

\* Verifier i turns the envelope e away: an error, no Response, no change.
TurnedAway(i, e) ==
    LET o == Verifier_process_encrypted_deal(cohort[i], e)
    IN  /\ o.res \notin {"ok", Panic}
        /\ o.out = <<>>
        /\ o.obj = cohort[i]

\* Verifier i answers the envelope e with a complaint recorded at index i.
AnsweredByComplaint(i, e) ==
    LET o == Verifier_process_encrypted_deal(cohort[i], e)
    IN  /\ o.res = "ok"
        /\ o.out = <<SignedResponse(dealer.session_id, i, FALSE)>>
        /\ o.obj.aggregator.responses[i] = o.out[1]

AllVerifiersCertified ==
    \A k \in Indices :
        /\ deal_certified(cohort[k].aggregator)
        /\ cohort[k].aggregator.responses[Victim] =
               [SignedResponse(dealer.session_id, Victim, FALSE) EXCEPT !.approved = TRUE]

\* What holds throughout the run with one faulty Deal.
JustifiedRunSafety ==
    /\ \A i \in Indices : \A e \in AlteredEnvelopes(i) : TurnedAway(i, e)
    /\ ~Emitted(Victim) => AnsweredByComplaint(Victim, FaultyEncryptedDeal)
    /\ \A k \in Indices :
           LET a == cohort[k].aggregator
               o == Verifier_process_justification(cohort[k], IssuedJustification(Victim))
           IN  /\ ~a.bad_dealer
               /\ (Victim \in DOMAIN a.responses /\ ~a.responses[Victim].approved) =>
                      /\ o.res = "ok"
                      /\ o.obj.aggregator =
                             [a EXCEPT !.responses[Victim].approved = TRUE]
               /\ ~(Indices \subseteq DOMAIN a.responses) => ~deal_certified(a)
               /\ (Indices \subseteq DOMAIN a.responses
                    /\ \A i \in Indices : a.responses[i].approved) => deal_certified(a)

C23_ResponsesCarrySessionId ==
    \A a \in Aggregators :
        a.threshold # 0 =>
            \A i \in DOMAIN a.responses : a.responses[i].session_id = a.session_id

\* C24: whenever Verifier.get_deal() succeeds, the Deal it returns passes
\* Deal verification against the verifier's session id (its sec_share and
\* rnd_share are consistent with its commitments) and has sec_share.i equal
\* to the verifier's own index, also when the dealer first sent a
\* non-verifying Deal and later justified the complaint with a verifying one.
C24_GetDealReturnsVerifiedDeal ==
    LET o == Verifier_get_deal(verifier)
    IN  o.res = "ok" =>
            /\ Deal_verify(o.out[1], Verifier_session_id(verifier)) = "ok"
            /\ o.out[1].sec_share.i = verifier.index

\* A Response is recorded for every index in aggregator a.
AllRecorded(a) == DOMAIN a.responses = 0 .. (N - 1)

\* Verifier k has successfully processed the Justification of every complaint
\* the Dealer has answered: each complaint the Dealer holds is stored as an
\* approval by k.
JustificationsProcessed(k) ==
    \A i \in 0 .. (N - 1) :
        Justified(i) =>
            /\ i \in DOMAIN cohort[k].aggregator.responses
            /\ cohort[k].aggregator.responses[i].approved

\* C25: Dealer/Verifier agreement: when the Dealer and a Verifier have both
\* recorded a Response for every index, every complaint has been answered
\* with a Justification and the Verifier has successfully processed all of
\* those Justifications, Dealer.deal_certified() equals
\* Verifier.deal_certified().
C25_DealerVerifierAgreement ==
    role = "Honest" =>
        \A k \in 0 .. (N - 1) :
            (/\ AllRecorded(dealer.aggregator)
             /\ AllRecorded(cohort[k].aggregator)
             /\ JustificationsProcessed(k))
                => deal_certified(dealer.aggregator)
                       = deal_certified(cohort[k].aggregator)

\* The verifier has not processed an EncryptedDeal: threshold 0 and an empty
\* session id.
AwaitingDeal ==
    /\ role = "Verifier"
    /\ verifier.aggregator.threshold = 0
    /\ verifier.aggregator.session_id = EmptySid

\* C26: a Verifier whose aggregator has threshold 0 and an empty session id
\* rejects every Response passed to process_response, validly signed or not,
\* with an error and records nothing.
C26_ResponseBeforeDealRejected ==
    AwaitingDeal =>
        \A r \in ResponseInputs \cup EmptySessionResponses :
            LET o == Verifier_process_response(verifier, r)
            IN  o.res # "ok" /\ o.obj = verifier

\* A verifier awaiting its deal, with a Response set by
\* unsafe_set_response_dkg, turns away a peer's validly signed approval for
\* the dealer's session and one signed over the empty session id.
C26_Witness ==
    /\ AwaitingDeal
    /\ DOMAIN verifier.aggregator.responses # {}
    /\ LET r == SignedResponse(dealer.session_id, (verifier.index + 1) % N, TRUE)
           o == Verifier_process_response(verifier, r)
       IN  /\ r \in ResponseInputs
           /\ o.res = "could not convert slice to array"
           /\ o.obj = verifier
    /\ \E r \in EmptySessionResponses :
           /\ r.index # verifier.index
           /\ Verifier_process_response(verifier, r).res # "ok"

\* C27: in every reachable state of a Verifier: if the aggregator's threshold
\* is non-zero then a Deal is cached, the cached Deal's t equals the
\* threshold, the cached Deal's sec_share.i equals the verifier's index, the
\* aggregator's session_id equals the cached Deal's session_id and a Response
\* is stored at the verifier's own index; if the threshold is zero then
\* deal_certified() is false.
C27_VerifierStateInvariant ==
    role = "Verifier" =>
        LET a == verifier.aggregator
        IN  /\ a.threshold # 0 =>
                   /\ a.deal # DefaultDeal
                   /\ a.deal.t = a.threshold
                   /\ a.deal.sec_share.i = verifier.index
                   /\ a.session_id = a.deal.session_id
                   /\ verifier.index \in DOMAIN a.responses
            /\ a.threshold = 0 => ~deal_certified(a)

\* A verifier that cached its Deal, stored its own Response and has since
\* recorded a Response for every index and certified the deal.
C27_Witness ==
    /\ role = "Verifier"
    /\ verifier.aggregator.threshold # 0
    /\ verifier.aggregator.deal.t = verifier.aggregator.threshold
    /\ verifier.aggregator.deal.sec_share.i = verifier.index
    /\ AllRecorded(verifier.aggregator)
    /\ deal_certified(verifier.aggregator)

====
